---- MODULE Spec2Model ----
(***************************************************************************)
(* ansine: the /proc text parsers (src/src/parser.rs), the derived metrics *)
(* and get_metrics (src/src/metrics.rs) and the percentage arithmetic of   *)
(* src/src/main.rs.                                                        *)
(*                                                                         *)
(* A text is a sequence of one-character strings; a parser takes the text  *)
(* and a 1-based position and returns [ok, val, pos], pos being the        *)
(* position of the first unconsumed character (Len(s) + 1 at end of input).*)
(* usize is modelled UsizeBits wide: parsing a digit run that does not fit *)
(* fails as str::parse::<usize> does, and arithmetic that leaves the range *)
(* panics in a build with overflow checks (debug) and wraps in one without *)
(* (release).                                                              *)
(***************************************************************************)
EXTENDS Integers, Sequences, FiniteSets, TLC

VARIABLES pc, input, ret, build, get_current_system, metrics, prev

vars == <<pc, input, ret, build, get_current_system, metrics, prev>>

\* ------------------------------------------------------------------ bounds

\* Width of usize in the model (the program's targets have 32 or 64).
UsizeBits == 16

\* Largest seed of the generated tick counters.
MaxTick == 2

RECURSIVE Pow2(_)
Pow2(n) == IF n = 0 THEN 1 ELSE 2 * Pow2(n - 1)

USIZE_MOD == Pow2(UsizeBits)

USIZE_MAX == USIZE_MOD - 1

Builds == {"debug", "release"}

\* ------------------------------------------------------- characters, texts

Digits == {"0", "1", "2", "3", "4", "5", "6", "7", "8", "9"}

Letters ==
    {"a", "b", "c", "d", "e", "f", "g", "h", "i", "j", "k", "l", "m",
     "n", "o", "p", "q", "r", "s", "t", "u", "v", "w", "x", "y", "z",
     "A", "B", "C", "D", "E", "F", "G", "H", "I", "J", "K", "L", "M",
     "N", "O", "P", "Q", "R", "S", "T", "U", "V", "W", "X", "Y", "Z"}

IsDigit(c) == c \in Digits

IsSpace(c) == c \in {" ", "\t", "\n", "\r"}

IsAlnum(c) == c \in Digits \cup Letters

DigitVal(c) ==
    CASE c = "0" -> 0 [] c = "1" -> 1 [] c = "2" -> 2 [] c = "3" -> 3
      [] c = "4" -> 4 [] c = "5" -> 5 [] c = "6" -> 6 [] c = "7" -> 7
      [] c = "8" -> 8 [] c = "9" -> 9

DigitChar(d) == <<"0", "1", "2", "3", "4", "5", "6", "7", "8", "9">>[d + 1]

\* The decimal text of n, as format!("{}", n) writes it.
RECURSIVE Fmt(_)
Fmt(n) == IF n < 10 THEN <<DigitChar(n)>> ELSE Fmt(n \div 10) \o <<DigitChar(n % 10)>>

RECURSIVE Concat(_)
Concat(ss) == IF ss = <<>> THEN <<>> ELSE Head(ss) \o Concat(Tail(ss))

Slice(s, p, q) == SubSeq(s, p, q - 1)

\* ------------------------------------------------------ nom's combinators

Ok(v, p) == [ok |-> TRUE, val |-> v, pos |-> p]

Err(p) == [ok |-> FALSE, val |-> 0, pos |-> p]

\* multispace0: zero or more spaces, tabs, carriage returns and line feeds.
RECURSIVE multispace0(_, _)
multispace0(s, p) ==
    IF p <= Len(s) /\ IsSpace(s[p]) THEN multispace0(s, p + 1) ELSE p

RECURSIVE SkipDigits(_, _)
SkipDigits(s, p) ==
    IF p <= Len(s) /\ IsDigit(s[p]) THEN SkipDigits(s, p + 1) ELSE p

\* digit1: one or more digits; val is the run.
digit1(s, p) ==
    LET q == SkipDigits(s, p)
    IN  IF q = p THEN Err(p) ELSE Ok(Slice(s, p, q), q)

HasAt(pat, s, p) ==
    /\ p + Len(pat) - 1 <= Len(s)
    /\ \A k \in 1..Len(pat) : s[p + k - 1] = pat[k]

\* tag(pat): the literal pat at the cursor.
tag(pat, s, p) == IF HasAt(pat, s, p) THEN Ok(pat, p + Len(pat)) ELSE Err(p)

\* take_until(pat): everything before the first occurrence of pat; fails
\* when pat does not occur.
take_until_from(pat, s, p, q) ==
    IF \E k \in q..(Len(s) + 1) : HasAt(pat, s, k)
    THEN LET k == CHOOSE k \in q..(Len(s) + 1) :
                      /\ HasAt(pat, s, k)
                      /\ \A j \in q..(k - 1) : ~HasAt(pat, s, j)
         IN  Ok(Slice(s, p, k), k)
    ELSE Err(p)
take_until(pat, s, p) == take_until_from(pat, s, p, p)

\* usize::from_str on a digit run: checked multiply and add, -1 for the
\* error of a value that does not fit.
RECURSIVE FromStrAcc(_, _, _)
FromStrAcc(run, k, acc) ==
    IF k > Len(run) THEN acc
    ELSE LET n == acc * 10 + DigitVal(run[k])
         IN  IF n > USIZE_MAX THEN -1 ELSE FromStrAcc(run, k + 1, n)

usize_from_str(run) == FromStrAcc(run, 1, 0)

\* parse_usize: map_res(ws(digit1), from_str).
parse_usize(s, p) ==
    LET d == digit1(s, multispace0(s, p))
    IN  IF ~d.ok THEN Err(p)
        ELSE LET v == usize_from_str(d.val)
             IN  IF v < 0 THEN Err(p) ELSE Ok(v, multispace0(s, d.pos))

\* tuple((parse_usize, ..., parse_usize)) with n members: val is the
\* sequence of the n values.
RECURSIVE tuple_usize(_, _, _)
tuple_usize(s, p, n) ==
    IF n = 0 THEN Ok(<<>>, p)
    ELSE LET r == parse_usize(s, p)
         IN  IF ~r.ok THEN Err(p)
             ELSE LET t == tuple_usize(s, r.pos, n - 1)
                  IN  IF ~t.ok THEN Err(p) ELSE Ok(<<r.val>> \o t.val, t.pos)

\* ------------------------------------------------------------- parse_stat

CpuTag == <<"c", "p", "u", " ">>

StatFields == 10

MkStat(v) ==
    [user |-> v[1], nice |-> v[2], system |-> v[3], idle |-> v[4],
     iowait |-> v[5], irq |-> v[6], softirq |-> v[7], steal |-> v[8],
     guest |-> v[9], guest_nice |-> v[10]]

\* A parse_stat that stops after the steal counter and zero-fills the rest.
parse_stat_lenient(s) ==
    LET u == take_until(CpuTag, s, 1)
    IN  IF ~u.ok THEN Err(1)
        ELSE LET t == tuple_usize(s, tag(CpuTag, s, u.pos).pos, 8)
             IN  IF ~t.ok THEN Err(1)
                 ELSE LET g  == parse_usize(s, t.pos)
                          gn == IF g.ok THEN parse_usize(s, g.pos) ELSE Err(t.pos)
                          v  == t.val \o <<IF g.ok THEN g.val ELSE 0,
                                           IF gn.ok THEN gn.val ELSE 0>>
                      IN  Ok(MkStat(v), IF gn.ok THEN gn.pos
                                        ELSE IF g.ok THEN g.pos ELSE t.pos)

\* A parse_stat that expects the aggregate line at the start of the text.
parse_stat_first_line(s) ==
    LET g == tag(CpuTag, s, 1)
    IN  IF ~g.ok THEN Err(1)
        ELSE LET t == tuple_usize(s, g.pos, StatFields)
             IN  IF ~t.ok THEN Err(1) ELSE Ok(MkStat(t.val), t.pos)

parse_stat(s) ==
    LET u == take_until(CpuTag, s, 1)
    IN  IF ~u.ok THEN Err(1)
        ELSE LET g == tag(CpuTag, s, u.pos)
                 t == IF g.ok THEN tuple_usize(s, g.pos, StatFields) ELSE Err(1)
             IN  IF ~t.ok THEN Err(1) ELSE Ok(MkStat(t.val), t.pos)

\* ------------------------------------------------ /proc/stat texts (input)

SP == <<" ">>

NL == <<"\n">>

\* A value no aggregate counter of the generated texts takes.
CoreVal == MaxTick + 5

RECURSIVE Repeat(_, _)
Repeat(s, n) == IF n = 0 THEN <<>> ELSE s \o Repeat(s, n - 1)

\* A per-core line, "cpu0 v v v v v v v v v v\n".
CoreLine == <<"c", "p", "u", "0">> \o Repeat(SP \o Fmt(CoreVal), StatFields) \o NL

StatPrefixes ==
    <<  <<>>,
        NL,
        <<"#", " ", "x", "\n">>,
        CoreLine,
        <<"#", " ", "c", "p", "u", " ", "\n">>  >>

PrefixHasCpuTag(k) == k = 5

StatSeps == << SP, <<" ", "\t", " ">> >>

StatTails == {"eof", "newline", "core"}

\* The counters of a generated aggregate line: position i differs from i + 1.
StatNums(x, y, z) ==
    <<x, y, z, x + 1, y + 1, z + 1, x + 2, y + 2, z + 2, x + 3, y + 3>>

StatInputs ==
    [kind : {"stat"}, pre : 1..Len(StatPrefixes), agg : BOOLEAN,
     x : (0..MaxTick) \cup {USIZE_MAX - 2}, y : 0..MaxTick, z : 0..MaxTick,
     count : 8..11, sep : 1..Len(StatSeps), tail : StatTails]

RECURSIVE JoinNums(_, _, _)
JoinNums(nums, n, sep) ==
    IF n = 0 THEN <<>>
    ELSE JoinNums(nums, n - 1, sep) \o sep \o Fmt(nums[n])

\* The text of a generated /proc/stat: the prefix, then "cpu " and count
\* counters ("cpu  1 2 ..." as the kernel writes it), then the tail.
StatText(in) ==
    StatPrefixes[in.pre]
    \o (IF in.agg
        THEN <<"c", "p", "u">>
             \o JoinNums(StatNums(in.x, in.y, in.z), in.count, StatSeps[in.sep])
        ELSE <<>>)
    \o (CASE in.tail = "eof" -> <<>>
          [] in.tail = "newline" -> NL
          [] in.tail = "core" -> NL \o CoreLine)

\* ------------------------------------------------------------- state

NoRet == [ok |-> FALSE, val |-> 0, pos |-> 0]

Cpu(total, used) == [total |-> total, used |-> used]

\* #[derive(Default)] for Metrics.
DefaultMetrics ==
    [uptime |-> [secs |-> 0, frac |-> <<>>],
     cpu_since_boot |-> Cpu(0, 0), cpu_delta |-> Cpu(0, 0),
     memory |-> [total |-> 0, used |-> 0], swap |-> [size |-> 0, used |-> 0],
     current_system |-> <<>>]

\* --------------------------------------- specification of parse_stat

InitStat ==
    /\ pc = "call"
    /\ input \in StatInputs
    /\ ret = NoRet
    /\ build = "release"
    /\ get_current_system = FALSE
    /\ metrics = DefaultMetrics
    /\ prev = DefaultMetrics

CallParseStat ==
    /\ pc = "call"
    /\ input.kind = "stat"
    /\ ret' = parse_stat(StatText(input))
    /\ pc' = "done"
    /\ UNCHANGED <<input, build, get_current_system, metrics, prev>>

NextStat == CallParseStat

SpecStat == InitStat /\ [][NextStat]_vars

\* The counters that follow the first "cpu " of a generated text, by the
\* way the text was put together.
StatFollows(in) ==
    IF in.agg /\ ~PrefixHasCpuTag(in.pre)
    THEN SubSeq(StatNums(in.x, in.y, in.z), 1, in.count)
    ELSE <<>>

StatHasCpuTag(in) == in.agg \/ PrefixHasCpuTag(in.pre)

\* C6: parse_stat finds the first "cpu " wherever it is in the text and
\* returns the ten unsigned integers after it as user, nice, system, idle,
\* iowait, irq, softirq, steal, guest, guest_nice in that order; it takes no
\* value from a per-core line; it fails on a text without "cpu ".
C6_ParseStatAggregate ==
    (pc = "done" /\ input.kind = "stat") =>
        LET f == StatFollows(input)
        IN  /\ ~StatHasCpuTag(input) => ~ret.ok
            /\ ret.ok =>
                 /\ Len(f) >= 10
                 /\ ret.val.user = f[1] /\ ret.val.nice = f[2]
                 /\ ret.val.system = f[3] /\ ret.val.idle = f[4]
                 /\ ret.val.iowait = f[5] /\ ret.val.irq = f[6]
                 /\ ret.val.softirq = f[7] /\ ret.val.steal = f[8]
                 /\ ret.val.guest = f[9] /\ ret.val.guest_nice = f[10]
            /\ (Len(f) >= 10 /\ \A i \in 1..10 : f[i] <= USIZE_MAX) => ret.ok

\* C6 witness: the aggregate line is found after a comment line and parsed,
\* with a per-core line after it.
C6_Witness ==
    /\ pc = "done" /\ input.kind = "stat"
    /\ input.pre = 3 /\ input.tail = "core" /\ input.count = 10
    /\ ret.ok /\ ret.val.idle = input.x + 1

EightCounters(in) ==
    /\ in.kind = "stat" /\ in.agg /\ ~PrefixHasCpuTag(in.pre)
    /\ in.count = 8

\* C7 as stated: an aggregate line with eight counters, followed by a
\* per-core line or the end of input, parses with guest = guest_nice = 0.
C7_Original ==
    (pc = "done" /\ EightCounters(input)) =>
        /\ ret.ok
        /\ ret.val.guest = 0 /\ ret.val.guest_nice = 0
        /\ ret.val.user = input.x /\ ret.val.steal = input.y + 2

\* C7 amended: an aggregate line with eight counters, followed by a
\* per-core line or the end of input, makes parse_stat fail: all ten
\* counters are required, none is defaulted and none is taken from the
\* per-core line.
C7_EightCountersFail ==
    (pc = "done" /\ EightCounters(input)) => ~ret.ok

C7_Witness ==
    /\ pc = "done" /\ EightCounters(input) /\ input.tail = "core"
    /\ ~ret.ok

\* ---------------------------------------------------------- parse_meminfo

Colon == <<":">>

KB == <<"k", "B">>

\* line_ending: "\n" or "\r\n".
line_ending(s, p) ==
    IF HasAt(<<"\n">>, s, p) THEN Ok(<<"\n">>, p + 1)
    ELSE IF HasAt(<<"\r", "\n">>, s, p) THEN Ok(<<"\r", "\n">>, p + 2)
    ELSE Err(p)

\* opt(f): the position after f when f matches, the cursor otherwise.
OptPos(r, p) == IF r.ok THEN r.pos ELSE p

\* val is <<label, size>>.
parse_meminfo_line(s, p) ==
    LET u == take_until(Colon, s, p)
    IN  IF ~u.ok THEN Err(p)
        ELSE LET n == parse_usize(s, tag(Colon, s, u.pos).pos)
             IN  IF ~n.ok THEN Err(p)
                 ELSE LET k == OptPos(tag(KB, s, n.pos), n.pos)
                          e == OptPos(line_ending(s, k), k)
                      IN  Ok(<<u.val, n.val>>, e)

\* many0(parse_meminfo_line): the lines parsed up to the first one that
\* does not parse; an error only for a line that consumes nothing.
RECURSIVE many0_meminfo_line(_, _, _)
many0_meminfo_line(s, p, acc) ==
    LET r == parse_meminfo_line(s, p)
    IN  IF ~r.ok THEN Ok(acc, p)
        ELSE IF r.pos = p THEN Err(p)
        ELSE many0_meminfo_line(s, r.pos, Append(acc, r.val))

\* into_iter().collect() into a HashMap: a later pair replaces an earlier
\* one with the same key.
CollectMap(pairs) ==
    [k \in {pairs[i][1] : i \in 1..Len(pairs)} |->
        pairs[CHOOSE i \in 1..Len(pairs) :
                  /\ pairs[i][1] = k
                  /\ \A j \in (i + 1)..Len(pairs) : pairs[j][1] # k][2]]

parse_meminfo(s) ==
    LET r == many0_meminfo_line(s, 1, <<>>)
    IN  IF ~r.ok THEN Err(1) ELSE Ok(CollectMap(r.val), r.pos)

\* ------------------------------------------- /proc/meminfo texts (input)

\* Most lines of a generated /proc/meminfo.
MaxMemLines == 3

MemTotalKey == <<"M", "e", "m", "T", "o", "t", "a", "l">>

MemFreeKey == <<"M", "e", "m", "F", "r", "e", "e">>

MemAvailableKey == <<"M", "e", "m", "A", "v", "a", "i", "l", "a", "b", "l", "e">>

HugePagesKey == <<"H", "u", "g", "e", "P", "a", "g", "e", "s", "_", "T", "o", "t", "a", "l">>

Pad == <<" ", " ", " ">>

\* The kinds of line: four well-formed ones, one without a colon, one whose
\* value is no number, one whose value does not fit usize.
MemLineKinds ==
    {"total", "free", "available", "huge", "nocolon", "badvalue", "toobig"}

MemLineMalformed(k) == k \in {"nocolon", "badvalue", "toobig"}

MemLineText(k) ==
    CASE k = "total"     -> MemTotalKey \o Colon \o Pad \o Fmt(USIZE_MAX - 3) \o SP \o KB
      [] k = "free"      -> MemFreeKey \o Colon \o Pad \o Fmt(7) \o SP \o KB
      [] k = "available" -> MemAvailableKey \o Colon \o SP \o Fmt(12) \o SP \o KB
      [] k = "huge"      -> HugePagesKey \o Colon \o Pad \o Fmt(0)
      [] k = "nocolon"   -> MemFreeKey \o Pad \o Fmt(7) \o SP \o KB
      [] k = "badvalue"  -> MemFreeKey \o Colon \o Pad \o <<"x">> \o SP \o KB
      [] k = "toobig"    -> MemFreeKey \o Colon \o Pad \o Fmt(USIZE_MAX + 1) \o SP \o KB

MemLineSeqs == UNION {[1..n -> MemLineKinds] : n \in 0..MaxMemLines}

MemInputs == [kind : {"meminfo"}, lines : MemLineSeqs, lastnl : BOOLEAN]

RECURSIVE JoinLines(_, _, _)
JoinLines(texts, n, lastnl) ==
    IF n = 0 THEN <<>>
    ELSE JoinLines(texts, n - 1, TRUE) \o texts[n] \o (IF lastnl THEN NL ELSE <<>>)

MemText(in) ==
    JoinLines([i \in 1..Len(in.lines) |-> MemLineText(in.lines[i])],
              Len(in.lines), in.lastnl)

MemHasMalformedLine(in) ==
    \E i \in 1..Len(in.lines) : MemLineMalformed(in.lines[i])

\* ------------------------------------- specification of parse_meminfo

InitMem ==
    /\ pc = "call"
    /\ input \in MemInputs
    /\ ret = NoRet
    /\ build = "release"
    /\ get_current_system = FALSE
    /\ metrics = DefaultMetrics
    /\ prev = DefaultMetrics

CallParseMeminfo ==
    /\ pc = "call"
    /\ input.kind = "meminfo"
    /\ ret' = parse_meminfo(MemText(input))
    /\ pc' = "done"
    /\ UNCHANGED <<input, build, get_current_system, metrics, prev>>

NextMem == CallParseMeminfo

SpecMem == InitMem /\ [][NextMem]_vars

\* C4: parse_meminfo fails whenever a line of its input has no colon or a
\* value that is no valid unsigned integer; it never succeeds with that
\* line's label and the later ones left out of the mapping.
C4_MalformedLineFails ==
    (pc = "done" /\ input.kind = "meminfo" /\ MemHasMalformedLine(input)) =>
        ~ret.ok

\* ------------------------------------------------------------ parse_swaps

\* Width of isize's magnitude: isize holds -2^(w-1) .. 2^(w-1) - 1.
ISIZE_MAX == Pow2(UsizeBits - 1) - 1

ISIZE_MIN == -Pow2(UsizeBits - 1)

RECURSIVE SkipAlnum(_, _)
SkipAlnum(s, p) ==
    IF p <= Len(s) /\ IsAlnum(s[p]) THEN SkipAlnum(s, p + 1) ELSE p

\* alphanumeric1: one or more letters and digits.
alphanumeric1(s, p) ==
    LET q == SkipAlnum(s, p)
    IN  IF q = p THEN Err(p) ELSE Ok(Slice(s, p, q), q)

RECURSIVE SkipNonSpace(_, _)
SkipNonSpace(s, p) ==
    IF p <= Len(s) /\ ~IsSpace(s[p]) THEN SkipNonSpace(s, p + 1) ELSE p

\* take_till(char::is_whitespace): everything before the next whitespace,
\* possibly nothing; it never fails.
take_till_whitespace(s, p) ==
    LET q == SkipNonSpace(s, p) IN Ok(Slice(s, p, q), q)

\* ws(tag(pat)).
ws_tag(pat, s, p) ==
    LET t == tag(pat, s, multispace0(s, p))
    IN  IF ~t.ok THEN Err(p) ELSE Ok(pat, multispace0(s, t.pos))

FileTok == <<"f", "i", "l", "e">>

PartitionTok == <<"p", "a", "r", "t", "i", "t", "i", "o", "n">>

\* SwapType::from_str: "" stands for Err(ParseSwapTypeError).
SwapType_from_str(tok) ==
    IF tok = FileTok THEN "File"
    ELSE IF tok = PartitionTok THEN "Partition"
    ELSE ""

\* parse_isize: an optional '-' and a digit run, no whitespace skipped;
\* isize::from_str fails for a value out of range.
parse_isize(s, p) ==
    LET neg == HasAt(<<"-">>, s, p)
        d   == digit1(s, IF neg THEN p + 1 ELSE p)
    IN  IF ~d.ok THEN Err(p)
        ELSE LET m == FromStrAcc(d.val, 1, 0)
                 v == IF neg THEN -m ELSE m
             IN  IF m < 0 \/ v > ISIZE_MAX \/ v < ISIZE_MIN THEN Err(p)
                 ELSE Ok(v, d.pos)

\* The end of a device row: the line ending after the priority.
swap_line_end(s, p, f, t, size, used, prio) ==
    IF ~prio.ok \/ ~line_ending(s, prio.pos).ok THEN Err(p)
    ELSE Ok(<<f.val, [swap_type |-> t, size |-> size.val,
                      used |-> used.val, priority |-> prio.val]>>,
            line_ending(s, prio.pos).pos)

swap_line_used(s, p, f, t, size, used) ==
    IF ~used.ok THEN Err(p)
    ELSE swap_line_end(s, p, f, t, size, used, parse_isize(s, used.pos))

swap_line_size(s, p, f, t, size) ==
    IF ~size.ok THEN Err(p)
    ELSE swap_line_used(s, p, f, t, size, parse_usize(s, size.pos))

\* The type token: ws(alphanumeric1) mapped through SwapType::from_str.
swap_line_type(s, p, f, a) ==
    IF ~a.ok \/ SwapType_from_str(a.val) = "" THEN Err(p)
    ELSE swap_line_size(s, p, f, SwapType_from_str(a.val),
                        parse_usize(s, multispace0(s, a.pos)))

swap_line_filename(s, p, f) ==
    swap_line_type(s, p, f, alphanumeric1(s, multispace0(s, f.pos)))

\* val is <<filename, Swap>>.
parse_swap_line(s, p) == swap_line_filename(s, p, take_till_whitespace(s, p))

RECURSIVE many0_swap_line(_, _, _)
\* One round of many0(parse_swap_line), r being the row's result.
many0_swap_step(s, p, acc, r) ==
    IF ~r.ok THEN Ok(acc, p)
    ELSE IF r.pos = p THEN Err(p)
    ELSE many0_swap_line(s, r.pos, Append(acc, r.val))

many0_swap_line(s, p, acc) == many0_swap_step(s, p, acc, parse_swap_line(s, p))

FilenameTok == <<"F", "i", "l", "e", "n", "a", "m", "e">>

TypeTok == <<"T", "y", "p", "e">>

SizeTok == <<"S", "i", "z", "e">>

UsedTok == <<"U", "s", "e", "d">>

PriorityTok == <<"P", "r", "i", "o", "r", "i", "t", "y">>

\* The next ws(tag(pat)) of the header's tuple, after the result r.
header_tag(pat, s, r) == IF ~r.ok THEN Err(1) ELSE ws_tag(pat, s, r.pos)

\* ws(terminated(tag("Priority"), line_ending)), after the result r.
header_priority(s, r) ==
    IF ~r.ok \/ ~tag(PriorityTok, s, multispace0(s, r.pos)).ok THEN Err(1)
    ELSE line_ending(s, tag(PriorityTok, s, multispace0(s, r.pos)).pos)

header_end(s, e) == IF ~e.ok THEN Err(1) ELSE Ok(<<>>, multispace0(s, e.pos))

\* The header: five ws(tag(..)), the last one terminated by a line ending.
parse_swaps_header(s) ==
    header_end(s,
        header_priority(s,
            header_tag(UsedTok, s,
                header_tag(SizeTok, s,
                    header_tag(TypeTok, s, ws_tag(FilenameTok, s, 1))))))

swaps_rows(r) == IF ~r.ok THEN Err(1) ELSE Ok(CollectMap(r.val), r.pos)

swaps_after_header(s, h) ==
    IF ~h.ok THEN Err(1) ELSE swaps_rows(many0_swap_line(s, h.pos, <<>>))

parse_swaps(s) == swaps_after_header(s, parse_swaps_header(s))

\* --------------------------------------------- /proc/swaps texts (input)

\* Most device rows of a generated /proc/swaps.
MaxSwapRows == 2

TAB == <<"\t">>

SwapHeaders ==
    <<  FilenameTok \o TAB \o TAB \o TypeTok \o TAB \o SizeTok \o TAB
            \o UsedTok \o TAB \o PriorityTok \o NL,
        FilenameTok \o TAB \o TypeTok \o TAB \o SizeTok \o TAB
            \o UsedTok \o TAB \o <<"P", "r", "i", "o">> \o NL  >>

SwapNames ==
    <<  <<"/", "s", "w", "a", "p", "f", "i", "l", "e">>,
        <<"/", "d", "e", "v", "/", "s", "d", "a", "2">>  >>

SwapTypeToks == << FileTok, PartitionTok, <<"z", "r", "a", "m">> >>

SwapRows == [name : 1..Len(SwapNames), type : 1..Len(SwapTypeToks), size : {8, 20}]

SwapRowPriority(row) == IF row.name = 1 THEN -2 ELSE 5

FmtInt(n) == IF n < 0 THEN <<"-">> \o Fmt(-n) ELSE Fmt(n)

SwapRowText(row) ==
    SwapNames[row.name] \o Pad \o SwapTypeToks[row.type] \o TAB \o TAB
    \o Fmt(row.size) \o TAB \o Fmt(row.size \div 4) \o TAB \o TAB
    \o FmtInt(SwapRowPriority(row)) \o NL

SwapRowSeqs == UNION {[1..n -> SwapRows] : n \in 0..MaxSwapRows}

SwapInputs == [kind : {"swaps"}, header : 1..Len(SwapHeaders), rows : SwapRowSeqs]

SwapText(in) ==
    SwapHeaders[in.header]
    \o Concat([i \in 1..Len(in.rows) |-> SwapRowText(in.rows[i])])

SwapHeaderValid(in) == in.header = 1

SwapHasUnknownType(in) ==
    \E i \in 1..Len(in.rows) :
        SwapTypeToks[in.rows[i].type] \notin {FileTok, PartitionTok}

\* --------------------------------------- specification of parse_swaps

InitSwaps ==
    /\ pc = "call"
    /\ input \in SwapInputs
    /\ ret = NoRet
    /\ build = "release"
    /\ get_current_system = FALSE
    /\ metrics = DefaultMetrics
    /\ prev = DefaultMetrics

CallParseSwaps ==
    /\ pc = "call"
    /\ input.kind = "swaps"
    /\ ret' = parse_swaps(SwapText(input))
    /\ pc' = "done"
    /\ UNCHANGED <<input, build, get_current_system, metrics, prev>>

NextSwaps == CallParseSwaps

SpecSwaps == InitSwaps /\ [][NextSwaps]_vars

\* C5: given a valid header and device rows, parse_swaps fails if a row's
\* type token is neither "file" nor "partition"; it never succeeds with that
\* row and the rows after it left out of the mapping.
C5_UnknownSwapTypeFails ==
    (pc = "done" /\ input.kind = "swaps"
        /\ SwapHeaderValid(input) /\ SwapHasUnknownType(input)) =>
        ~ret.ok

\* ------------------------------------------------------- usize arithmetic

\* A panic is a value below zero: which one tells the panic's message.
PanicOverflow == 0 - 1

PanicDivideByZero == 0 - 2

PanicExpect == 0 - 3

IsPanic(x) == x < 0

Wrap(n) == ((n % USIZE_MOD) + USIZE_MOD) % USIZE_MOD

\* The result of an operation whose exact value is n: n when it fits,
\* otherwise a panic with overflow checks and the wrapped value without.
Checked(b, n) ==
    IF 0 <= n /\ n <= USIZE_MAX THEN n
    ELSE IF b = "debug" THEN PanicOverflow
    ELSE Wrap(n)

usize_add(b, x, y) ==
    IF IsPanic(x) THEN x ELSE IF IsPanic(y) THEN y ELSE Checked(b, x + y)

usize_sub(b, x, y) ==
    IF IsPanic(x) THEN x ELSE IF IsPanic(y) THEN y ELSE Checked(b, x - y)

usize_mul(b, x, y) ==
    IF IsPanic(x) THEN x ELSE IF IsPanic(y) THEN y ELSE Checked(b, x * y)

\* Division by zero panics in every build.
usize_div(b, x, y) ==
    IF IsPanic(x) THEN x ELSE IF IsPanic(y) THEN y
    ELSE IF y = 0 THEN PanicDivideByZero
    ELSE x \div y

\* ----------------------------------------------------------------- Cpu

\* Cpu::from(Stat): a field below zero when the sum or the difference
\* panicked.
Cpu_from(b, s) ==
    LET total ==
            usize_add(b, usize_add(b, usize_add(b, usize_add(b, usize_add(b,
            usize_add(b, usize_add(b, usize_add(b, usize_add(b,
                s.user, s.nice), s.system), s.idle), s.iowait), s.irq),
                s.softirq), s.steal), s.guest), s.guest_nice)
    IN  Cpu(total, usize_sub(b, total, s.idle))

\* A subtraction that takes the minuend of used from the wrong field.
Cpu_sub_wrong_field(b, self, other) ==
    Cpu(usize_sub(b, self.total, other.total),
        usize_sub(b, self.total, other.used))

\* impl Sub<&Cpu> for &Cpu.
Cpu_sub(b, self, other) ==
    Cpu(usize_sub(b, self.total, other.total),
        usize_sub(b, self.used, other.used))

CpuPanicked(c) == IsPanic(c.total) \/ IsPanic(c.used)

\* ------------------------------------------------ tick samples (input)

TickVals == (0..MaxTick) \cup {USIZE_MAX - 1}

\* A sample: user, idle, steal and guest_nice vary, nice is 1.
StatSample(user, idle, steal, guest_nice) ==
    [user |-> user, nice |-> 1, system |-> 0, idle |-> idle, iowait |-> 0,
     irq |-> 0, softirq |-> 0, steal |-> steal, guest |-> 0,
     guest_nice |-> guest_nice]

StatSamples ==
    {StatSample(u, i, s, g) : u \in TickVals, i \in TickVals,
                              s \in TickVals, g \in 0..1}

CpuInputs == [kind : {"cpu"}, a : StatSamples, b : StatSamples]

\* ------------------------------- specification of the CPU delta

InitCpu ==
    /\ pc = "call"
    /\ input \in CpuInputs
    /\ ret = NoRet
    /\ build \in Builds
    /\ get_current_system = FALSE
    /\ metrics = DefaultMetrics
    /\ prev = DefaultMetrics

\* Cpu::from of both samples.
CallCpuFrom ==
    /\ pc = "call"
    /\ input.kind = "cpu"
    /\ LET a == Cpu_from(build, input.a)
           b == Cpu_from(build, input.b)
       IN  IF CpuPanicked(a) \/ CpuPanicked(b)
           THEN /\ pc' = "panicked"
                /\ ret' = [ok |-> FALSE, val |-> [a |-> a, b |-> b], pos |-> 0]
           ELSE /\ pc' = "converted"
                /\ ret' = [ok |-> TRUE, val |-> [a |-> a, b |-> b], pos |-> 0]
    /\ UNCHANGED <<input, build, get_current_system, metrics, prev>>

\* &b - &a.
CallCpuSub ==
    /\ pc = "converted"
    /\ LET d == Cpu_sub(build, ret.val.b, ret.val.a)
       IN  IF CpuPanicked(d)
           THEN /\ pc' = "panicked"
                /\ ret' = [ret EXCEPT !.ok = FALSE]
           ELSE /\ pc' = "done"
                /\ ret' = [ok |-> TRUE,
                           val |-> [a |-> ret.val.a, b |-> ret.val.b, delta |-> d],
                           pos |-> 0]
    /\ UNCHANGED <<input, build, get_current_system, metrics, prev>>

NextCpu == CallCpuFrom \/ CallCpuSub

SpecCpu == InitCpu /\ [][NextCpu]_vars

\* The two CpuUsage values are there and the subtraction has run.
CpuSubRan ==
    /\ input.kind = "cpu"
    /\ \/ pc = "done"
       \/ pc = "panicked" /\ ~CpuPanicked(ret.val.a) /\ ~CpuPanicked(ret.val.b)

StatSum(s) ==
    s.user + s.nice + s.system + s.idle + s.iowait + s.irq + s.softirq
    + s.steal + s.guest + s.guest_nice

SumsFit(in) == StatSum(in.a) <= USIZE_MAX /\ StatSum(in.b) <= USIZE_MAX

\* C3: when b.total < a.total or b.used < a.used, b - a yields no wrapped
\* value: each such field is clamped to zero, or the operation reports an
\* error (a panic is taken for one). Stated for the values of two samples
\* whose counters sum without overflow.
C3_NoWrappedDelta ==
    (CpuSubRan /\ SumsFit(input)
        /\ (ret.val.b.total < ret.val.a.total
               \/ ret.val.b.used < ret.val.a.used)) =>
        \/ pc = "panicked"
        \/ /\ ret.val.b.total < ret.val.a.total => ret.val.delta.total = 0
           /\ ret.val.b.used < ret.val.a.used => ret.val.delta.used = 0

\* C8 as stated: for any two samples a, b with total(b) > total(a), the
\* delta has used <= total. Stated where the arithmetic is exact (the sums
\* fit and used(b) >= used(a)), so that no wrapped value is what refutes it.
C8_Original ==
    (CpuSubRan /\ SumsFit(input)
        /\ ret.val.b.used >= ret.val.a.used
        /\ ret.val.b.total > ret.val.a.total) =>
        /\ pc = "done"
        /\ ret.val.delta.used <= ret.val.delta.total

NoCounterDecreases(a, b) ==
    /\ a.user <= b.user /\ a.nice <= b.nice /\ a.system <= b.system
    /\ a.idle <= b.idle /\ a.iowait <= b.iowait /\ a.irq <= b.irq
    /\ a.softirq <= b.softirq /\ a.steal <= b.steal /\ a.guest <= b.guest
    /\ a.guest_nice <= b.guest_nice

OrderedSamples(in) ==
    /\ in.kind = "cpu"
    /\ SumsFit(in)
    /\ NoCounterDecreases(in.a, in.b)
    /\ StatSum(in.b) > StatSum(in.a)

\* C8 amended: for two samples a, b whose ten counters each sum to at most
\* usize::MAX, with no counter of b below the one of a and total(b) >
\* total(a), the delta is computed and has used <= total.
C8_DeltaUsedAtMostTotal ==
    (OrderedSamples(input) /\ pc \in {"done", "panicked"}) =>
        /\ pc = "done"
        /\ ret.val.delta.total = StatSum(input.b) - StatSum(input.a)
        /\ ret.val.delta.used <= ret.val.delta.total

C8_Witness ==
    /\ OrderedSamples(input) /\ pc = "done"
    /\ input.b.idle > input.a.idle /\ input.b.user > input.a.user
    /\ ret.val.delta.used < ret.val.delta.total /\ ret.val.delta.used > 0

\* ------------------------------------------------------ memory usage

\* impl From<MemInfo> for Memory: .expect panics for a missing key.
Memory_from(b, m) ==
    IF MemTotalKey \notin DOMAIN m \/ MemAvailableKey \notin DOMAIN m
    THEN [total |-> PanicExpect, used |-> PanicExpect]
    ELSE [total |-> m[MemTotalKey],
          used |-> usize_sub(b, m[MemTotalKey], m[MemAvailableKey])]

MemoryPanicked(m) == IsPanic(m.total) \/ IsPanic(m.used)

\* total_used_memory of main.rs, on its MemInfo {total, available}.
total_used_memory(b, mem) ==
    usize_div(b, usize_mul(b, usize_sub(b, mem.total, mem.available), 100),
              mem.total)

\* ------------------------------------------- memory records (input)

\* Largest of the small memory sizes tried (kB).
MaxKb == 3

\* Sizes: the small ones, those of the test of main.rs, and the ones around
\* the largest whose hundredfold fits usize.
KbVals ==
    (0..MaxKb)
    \cup {500, 1000, USIZE_MAX \div 100, USIZE_MAX \div 100 + 1, USIZE_MAX}

MemUseInputs == [kind : {"memuse"}, total : KbVals, available : KbVals]

MemInfoOf(in) ==
    [k \in {MemTotalKey, MemAvailableKey} |->
        IF k = MemTotalKey THEN in.total ELSE in.available]

\* ----------------------------- specification of the memory usage

InitMemUse ==
    /\ pc = "call"
    /\ input \in MemUseInputs
    /\ ret = NoRet
    /\ build \in Builds
    /\ get_current_system = FALSE
    /\ metrics = DefaultMetrics
    /\ prev = DefaultMetrics

\* Memory::from of the MemInfo that holds the two sizes.
CallMemoryFrom ==
    /\ pc = "call"
    /\ input.kind = "memuse"
    /\ LET m == Memory_from(build, MemInfoOf(input))
       IN  /\ pc' = IF MemoryPanicked(m) THEN "panicked" ELSE "converted"
           /\ ret' = [ok |-> ~MemoryPanicked(m), val |-> [memory |-> m], pos |-> 0]
    /\ UNCHANGED <<input, build, get_current_system, metrics, prev>>

\* total_used_memory of the record {total, available}.
CallTotalUsedMemory ==
    /\ pc \in {"call", "converted"}
    /\ input.kind = "memuse"
    /\ LET p == total_used_memory(build, [total |-> input.total,
                                          available |-> input.available])
       IN  /\ pc' = IF IsPanic(p) THEN "percent_panicked" ELSE "done"
           /\ ret' = [ok |-> ~IsPanic(p), val |-> [percent |-> p], pos |-> 0]
    /\ UNCHANGED <<input, build, get_current_system, metrics, prev>>

NextMemUse == CallMemoryFrom \/ CallTotalUsedMemory

SpecMemUse == InitMemUse /\ [][NextMemUse]_vars

PercentRan == input.kind = "memuse" /\ pc \in {"done", "percent_panicked"}

\* C9: the memory usage percentage guards against total = 0: for such a
\* record it reports a guarded failure or a value, and divides by zero
\* never.
C9_ZeroTotalGuarded ==
    (PercentRan /\ input.total = 0) => pc = "done"

\* C10: for every memory record with total > 0 and available <= total, used
\* memory is total - available and the usage percentage is the integer
\* quotient ((total - available) * 100) / total, which lies in 0..100.
C10_PercentInRange ==
    (input.kind = "memuse" /\ input.total > 0 /\ input.available <= input.total) =>
        /\ pc = "converted" =>
               ret.val.memory.used = input.total - input.available
        /\ pc # "panicked"
        /\ PercentRan =>
               /\ pc = "done"
               /\ ret.val.percent =
                      ((input.total - input.available) * 100) \div input.total
               /\ ret.val.percent \in 0..100

\* ----------------------------------------------------------- parse_uptime

\* The digits of a fraction without its trailing zeros.
RECURSIVE StripZeros(_)
StripZeros(ds) ==
    IF ds # <<>> /\ ds[Len(ds)] = "0" THEN StripZeros(SubSeq(ds, 1, Len(ds) - 1))
    ELSE ds

\* double, on texts of signs, digits and points (the generated texts hold
\* no exponent, "inf" or "nan"): an optional sign, then digits with an
\* optional point and fraction, or a point and a fraction. val is
\* [neg, whole, frac], frac being the fraction's digits.
double(s, p) ==
    LET neg  == HasAt(<<"-">>, s, p)
        q    == IF neg \/ HasAt(<<"+">>, s, p) THEN p + 1 ELSE p
        w    == digit1(s, q)
        dot  == HasAt(<<".">>, s, IF w.ok THEN w.pos ELSE q)
        fpos == (IF w.ok THEN w.pos ELSE q) + 1
        f    == IF dot THEN digit1(s, fpos) ELSE Err(q)
    IN  IF ~w.ok /\ ~f.ok THEN Err(p)
        ELSE Ok([neg |-> neg,
                 whole |-> IF w.ok THEN FromStrAcc(w.val, 1, 0) ELSE 0,
                 frac |-> IF f.ok THEN StripZeros(f.val) ELSE <<>>],
                IF f.ok THEN f.pos ELSE IF dot THEN fpos ELSE w.pos)

\* parse_f64: ws(double).
parse_f64(s, p) ==
    LET d == double(s, multispace0(s, p))
    IN  IF ~d.ok THEN Err(p) ELSE Ok(d.val, multispace0(s, d.pos))

\* parse_uptime: Duration::from_secs_f64 panics for a negative value; val is
\* the Duration [secs, frac], with panicked set when the conversion panics.
parse_uptime(s) ==
    LET u == parse_f64(s, 1)
    IN  IF ~u.ok THEN Err(1)
        ELSE Ok([panicked |-> u.val.neg /\ (u.val.whole > 0 \/ u.val.frac # <<>>),
                 secs |-> u.val.whole, frac |-> u.val.frac], u.pos)

\* --------------------------------------------------- parse_nix_store_path

NixStorePrefix == <<"/", "n", "i", "x", "/", "s", "t", "o", "r", "e", "/">>

\* preceded(tag("/nix/store/"), rest).
parse_nix_store_path(s) ==
    LET t == tag(NixStorePrefix, s, 1)
    IN  IF ~t.ok THEN Err(1)
        ELSE Ok(Slice(s, t.pos, Len(s) + 1), Len(s) + 1)

\* ------------------------------------------------------------ Swap::from

RECURSIVE SumField(_, _, _)
SumField(m, keys, f) ==
    IF keys = {} THEN 0
    ELSE LET k == CHOOSE k \in keys : TRUE
         IN  m[k][f] + SumField(m, keys \ {k}, f)

\* The fold adds values that are never negative: a partial sum leaves usize
\* exactly when the whole sum does.
Swap_from(b, swaps) ==
    [size |-> Checked(b, SumField(swaps, DOMAIN swaps, "size")),
     used |-> Checked(b, SumField(swaps, DOMAIN swaps, "used"))]

SwapPanicked(w) == IsPanic(w.size) \/ IsPanic(w.used)

\* ------------------------------------------------- the sources (input)

\* What a refresh finds at each of the four files and at the link
\* /run/current-system: "unreadable", or a name for its content.
MeminfoChoices == {"unreadable", "good", "nototal", "nocolon"}

UptimeChoices == {"good", "malformed"}

SwapsChoices == {"good", "badheader"}

\* Most seeds of the readable /proc/stat contents, "s0" .. "s<MaxStatSeed>".
MaxStatSeed == 2

StatSeedNames == <<"s0", "s1", "s2", "s3", "s4", "s5">>

StatChoices == {StatSeedNames[k + 1] : k \in 0..MaxStatSeed} \cup {"eight"}

LinkChoices == {"unreadable", "badprefix", "good"}

Sources ==
    [kind : {"sources"}, meminfo : MeminfoChoices, uptime : UptimeChoices,
     swaps : SwapsChoices, stat : StatChoices, link : LinkChoices]

NoInput == [kind |-> "none"]

MeminfoFile(c) ==
    MemText([kind |-> "meminfo", lastnl |-> TRUE,
             lines |-> CASE c = "good"    -> <<"total", "free", "available">>
                         [] c = "nototal" -> <<"free", "available">>
                         [] c = "nocolon" -> <<"nocolon", "total", "available">>])

UptimeFile(c) ==
    CASE c = "good" ->
             <<"1", "2", ".", "5", "0", " ", "3", "0", ".", "2", "5", "\n">>
      [] c = "malformed" -> <<"u", "p", " ", "1", "2", "\n">>

SwapsFile(c) ==
    SwapText([kind |-> "swaps",
              header |-> IF c = "good" THEN 1 ELSE 2,
              rows |-> << [name |-> 1, type |-> 1, size |-> 20],
                          [name |-> 2, type |-> 2, size |-> 8] >>])

StatSeed(c) == CHOOSE k \in 0..MaxStatSeed : StatSeedNames[k + 1] = c

StatFile(c) ==
    StatText([kind |-> "stat", pre |-> 1, agg |-> TRUE, sep |-> 1,
              tail |-> "core",
              x |-> IF c = "eight" THEN 0 ELSE StatSeed(c),
              y |-> IF c = "eight" THEN 0 ELSE 2 * StatSeed(c),
              z |-> 0,
              count |-> IF c = "eight" THEN 8 ELSE 10])

LinkTarget(c) ==
    CASE c = "good" -> NixStorePrefix \o <<"a", "b", "c", "-", "n", "i", "x", "o", "s">>
      [] c = "badprefix" -> <<"/", "u", "s", "r", "/", "x">>

\* ------------------------------------------------------------ get_metrics

MErr(e) == [kind |-> "Err", val |-> e]

MOk(v) == [kind |-> "Ok", val |-> v]

MPanic == [kind |-> "Panic", val |-> 0]

\* read_file and the parser f of get_metric, on the file fp holds: the
\* parsed value, FileRead for an unreadable file, MetricParse for a text f
\* rejects.
get_metric(c, parsed) ==
    IF c = "unreadable" THEN MErr("FileRead")
    ELSE IF ~parsed.ok THEN MErr("MetricParse")
    ELSE MOk(parsed.val)

\* What each parser returns on each content a source can hold.
MeminfoParsed ==
    [c \in MeminfoChoices \ {"unreadable"} |-> parse_meminfo(MeminfoFile(c))]

UptimeParsed ==
    [c \in UptimeChoices \ {"unreadable"} |-> parse_uptime(UptimeFile(c))]

SwapsParsed ==
    [c \in SwapsChoices \ {"unreadable"} |-> parse_swaps(SwapsFile(c))]

StatParsed ==
    [c \in StatChoices \ {"unreadable"} |-> parse_stat(StatFile(c))]

LinkParsed ==
    [c \in LinkChoices \ {"unreadable"} |-> parse_nix_store_path(LinkTarget(c))]

get_metric_meminfo(c) ==
    get_metric(c, IF c = "unreadable" THEN NoRet ELSE MeminfoParsed[c])

get_metric_uptime(c) ==
    get_metric(c, IF c = "unreadable" THEN NoRet ELSE UptimeParsed[c])

get_metric_swaps(c) ==
    get_metric(c, IF c = "unreadable" THEN NoRet ELSE SwapsParsed[c])

get_metric_stat(c) ==
    get_metric(c, IF c = "unreadable" THEN NoRet ELSE StatParsed[c])

\* read_link, then parse_nix_store_path.
read_nixos_current_system(c) ==
    IF c = "unreadable" THEN MErr("LinkRead")
    ELSE IF LinkParsed[c].ok THEN MOk(LinkParsed[c].val)
    ELSE MErr("MetricParse")

\* Memory::from(get_metric("/proc/meminfo", parse_meminfo)?).
metric_memory(b, mem) ==
    IF mem.kind = "Err" THEN mem
    ELSE IF MemoryPanicked(Memory_from(b, mem.val)) THEN MPanic
    ELSE MOk(Memory_from(b, mem.val))

\* get_metric("/proc/uptime", parse_uptime)?.
metric_uptime(upt) ==
    IF upt.kind = "Err" THEN upt
    ELSE IF upt.val.panicked THEN MPanic
    ELSE MOk([secs |-> upt.val.secs, frac |-> upt.val.frac])

\* Swap::from(get_metric("/proc/swaps", parse_swaps)?).
metric_swap(b, swp) ==
    IF swp.kind = "Err" THEN swp
    ELSE IF SwapPanicked(Swap_from(b, swp.val)) THEN MPanic
    ELSE MOk(Swap_from(b, swp.val))

\* Cpu::from(get_metric("/proc/stat", parse_stat)?).
metric_cpu(b, st) ==
    IF st.kind = "Err" THEN st
    ELSE IF CpuPanicked(Cpu_from(b, st.val)) THEN MPanic
    ELSE MOk(Cpu_from(b, st.val))

\* &cpu_since_boot - &last_metrics.cpu_since_boot.
metric_cpu_delta(b, cpu, last_metrics) ==
    IF cpu.kind # "Ok" THEN cpu
    ELSE IF CpuPanicked(Cpu_sub(b, cpu.val, last_metrics.cpu_since_boot)) THEN MPanic
    ELSE MOk(Cpu_sub(b, cpu.val, last_metrics.cpu_since_boot))

\* The statements of get_metrics in their order: the first error (`?`) or
\* panic ends the call; Some(s) is <<s>> and None is <<>>.
metrics_result(flag, memory, uptime, swap, cpu_since_boot, cpu_delta, cur) ==
    IF memory.kind # "Ok" THEN memory
    ELSE IF uptime.kind # "Ok" THEN uptime
    ELSE IF swap.kind # "Ok" THEN swap
    ELSE IF cpu_since_boot.kind # "Ok" THEN cpu_since_boot
    ELSE IF cpu_delta.kind # "Ok" THEN cpu_delta
    ELSE IF flag /\ cur.kind = "Err" THEN cur
    ELSE MOk([uptime |-> uptime.val,
              cpu_since_boot |-> cpu_since_boot.val,
              cpu_delta |-> cpu_delta.val,
              memory |-> memory.val,
              swap |-> swap.val,
              current_system |-> IF flag THEN <<cur.val>> ELSE <<>>])

metrics_from_cpu(b, last_metrics, src, flag, cpu) ==
    metrics_result(flag,
                   metric_memory(b, get_metric_meminfo(src.meminfo)),
                   metric_uptime(get_metric_uptime(src.uptime)),
                   metric_swap(b, get_metric_swaps(src.swaps)),
                   cpu,
                   metric_cpu_delta(b, cpu, last_metrics),
                   read_nixos_current_system(src.link))

get_metrics(b, last_metrics, src, flag) ==
    metrics_from_cpu(b, last_metrics, src, flag,
                     metric_cpu(b, get_metric_stat(src.stat)))

\* ------------------------------------------ specification of the refresh

NoResult == [kind |-> "None", val |-> 0, last |-> DefaultMetrics]

Init ==
    /\ pc = "idle"
    /\ input = NoInput
    /\ ret = NoResult
    /\ build \in Builds
    /\ get_current_system \in BOOLEAN
    /\ metrics = DefaultMetrics
    /\ prev = DefaultMetrics

\* The end of a cycle whose get_metrics returned r: a new snapshot replaces
\* the published one, an error leaves it, a panic ends the task.
Publish(src, r) ==
    /\ ret' = [kind |-> r.kind, val |-> r.val, last |-> metrics]
    /\ pc' = IF r.kind = "Panic" THEN "crashed" ELSE "refreshed"
    /\ metrics' = IF r.kind = "Ok" THEN r.val ELSE metrics
    /\ prev' = IF r.kind = "Ok" THEN metrics ELSE prev
    /\ input' = src
    /\ UNCHANGED <<build, get_current_system>>

\* One refresh cycle: get_metrics on the published snapshot and on what the
\* sources hold.
Refresh(src) ==
    /\ pc = "idle"
    /\ Publish(src, get_metrics(build, metrics, src, get_current_system))

\* The periodic trigger re-arms after the cycle.
Tick ==
    /\ pc = "refreshed"
    /\ pc' = "idle"
    /\ input' = NoInput
    /\ ret' = NoResult
    /\ UNCHANGED <<build, get_current_system, metrics, prev>>

Next == (\E src \in Sources : Refresh(src)) \/ Tick

Spec == Init /\ [][Next]_vars

RefreshEnded == input.kind = "sources" /\ pc \in {"refreshed", "crashed"}

SourceBad(src) ==
    \/ src.meminfo # "good"
    \/ src.uptime # "good"
    \/ src.swaps # "good"
    \/ src.stat = "eight"

\* C1: with a snapshot published before, a refresh in which one of the four
\* sources is unreadable or malformed ends in an error result, not a crash
\* and not a new snapshot, and leaves the published snapshot as it was in
\* every field.
C1_BadSourceIsAnError ==
    (RefreshEnded /\ ret.last # DefaultMetrics /\ SourceBad(input)) =>
        /\ pc = "refreshed"
        /\ ret.kind = "Err"
        /\ metrics = ret.last

\* C2: with the identifier requested and the link unreadable or its target
\* without the prefix, a refresh whose four sources all parse (one that
\* succeeds when the identifier is not requested) succeeds with the
\* identifier absent.
C2_LinkFailureNotFatal ==
    (RefreshEnded /\ get_current_system
        /\ input.link \in {"unreadable", "badprefix"}
        /\ ~SourceBad(input)
        /\ get_metrics(build, ret.last, input, FALSE).kind = "Ok") =>
        /\ ret.kind = "Ok"
        /\ metrics.current_system = <<>>

\* A refresh has replaced the default snapshot.
SnapshotPublished == metrics # DefaultMetrics

\* The published cpu_delta is the usize difference (modulo 2^UsizeBits) of
\* the snapshot's cpu_since_boot and that of the snapshot published before.
DeltaIsUsizeDifference ==
    SnapshotPublished =>
        /\ metrics.cpu_delta.total =
               (metrics.cpu_since_boot.total - prev.cpu_since_boot.total) % USIZE_MOD
        /\ metrics.cpu_delta.used =
               (metrics.cpu_since_boot.used - prev.cpu_since_boot.used) % USIZE_MOD

\* C11: after any sequence of refreshes, the published snapshot's cpu_delta
\* equals, field by field, its own cpu_since_boot minus the cpu_since_boot
\* of the snapshot published immediately before it (failed refreshes in
\* between leave that baseline; before the first success it is total = 0,
\* used = 0).
C11_DeltaAgainstPublished ==
    SnapshotPublished =>
        /\ metrics.cpu_delta.total =
               metrics.cpu_since_boot.total - prev.cpu_since_boot.total
        /\ metrics.cpu_delta.used =
               metrics.cpu_since_boot.used - prev.cpu_since_boot.used

====
